---------------------------- MODULE Spec2Model ----------------------------
(***************************************************************************)
(* Model of atcoder8/graham-scan (src/src/index.ts): the angular           *)
(* comparator compareAngle, the hull engine findConvexHull, and the two    *)
(* event listeners (canvas click, reset button) that own the global point  *)
(* list and redraw the hull after every change.                            *)
(*                                                                         *)
(* Three specifications share the variables:                               *)
(*   Spec       the page: Init is the state after the script has run, the  *)
(*              actions are the two listeners;                             *)
(*   SpecHull   one call of findConvexHull on an arbitrary array (repeated *)
(*              points allowed) of at most MaxLen points;                  *)
(*   SpecHullSmall  the same call on the arrays of at most MaxSmallLen     *)
(*              points;                                                    *)
(*   SpecAngle  one call of compareAngle on arbitrary arguments.           *)
(***************************************************************************)
EXTENDS Integers, Sequences, FiniteSets, TLC

(***************************************************************************)
(* Bounds.  The page's grid is 100 x 100 cells on a 640 x 640 canvas with  *)
(* a padding of 5; the model keeps the same formulas on a small grid.      *)
(***************************************************************************)
WIDTH == 3

HEIGHT == 3

CANVAS_WIDTH == 8

CANVAS_HEIGHT == 8

CANVAS_PADDING == 1

\* The click listener of the model stops adding at MaxPoints points.
MaxPoints == 3

\* SpecHull draws arrays of at most MaxLen elements.
MaxLen == 6

\* SpecHullSmall draws arrays of at most MaxSmallLen elements.
MaxSmallLen == 3

VARIABLES
    points,       \* the global array `points` (SpecHull: the caller's array)
    convexHull,   \* the hull drawn last (SpecHull: findConvexHull's result)
    message,      \* messageLabel.textContent, as the numbers it is built from
    pc,           \* "idle" (page) | "call" | "done" (one function call)
    angleArgs,    \* SpecAngle: compareAngle's arguments
    angleResult   \* SpecAngle: compareAngle's result

vars == <<points, convexHull, message, pc, angleArgs, angleResult>>

---------------------------------------------------------------------------
(* Coord2D *)

Coord2D(x, y) == [x |-> x, y |-> y]

same(this, other) == this.x = other.x /\ this.y = other.y

\* Every coordinate of the grid.
Cells == {Coord2D(x, y) : x \in 0..(WIDTH - 1), y \in 0..(HEIGHT - 1)}

---------------------------------------------------------------------------
(* compareAngle *)

\* Math.sign on integers.
Sign(n) == IF n > 0 THEN 1 ELSE IF n < 0 THEN -1 ELSE 0

\* Mutant of REGIONS: the regions (-1, 0) and (-1, -1) change places.
REGIONS_Swapped == << <<0, 0>>, <<1, 0>>, <<1, 1>>, <<0, 1>>, <<-1, 1>>,
                      <<-1, -1>>, <<-1, 0>>, <<0, -1>>, <<1, -1>> >>

REGIONS == << <<0, 0>>, <<1, 0>>, <<1, 1>>, <<0, 1>>, <<-1, 1>>,
              <<-1, 0>>, <<-1, -1>>, <<0, -1>>, <<1, -1>> >>

\* REGIONS.findIndex(region => region[0] === Math.sign(x) && region[1] === Math.sign(y)):
\* the 0-based index of the first matching region, -1 when there is none.
\* FindRegion walks the 1-based positions from i.
RECURSIVE FindRegion(_, _, _)
FindRegion(sx, sy, i) ==
    IF i > Len(REGIONS) THEN -1
    ELSE IF REGIONS[i][1] = sx /\ REGIONS[i][2] = sy THEN i - 1
    ELSE FindRegion(sx, sy, i + 1)

\* findIndex's answer for each pair of signs.
RegionIdxOfSigns == [sx \in {-1, 0, 1}, sy \in {-1, 0, 1} |-> FindRegion(sx, sy, 1)]

RegionIdx(x, y) == RegionIdxOfSigns[Sign(x), Sign(y)]

compareAngle(base1, coord1, base2, coord2) ==
    LET x1 == coord1.x - base1.x
        y1 == coord1.y - base1.y
        x2 == coord2.x - base2.x
        y2 == coord2.y - base2.y
        regionIdx1 == RegionIdx(x1, y1)
        regionIdx2 == RegionIdx(x2, y2)
    IN  IF regionIdx1 # regionIdx2
        THEN Sign(regionIdx1 - regionIdx2)
        ELSE Sign(y1 * x2 - y2 * x1)

---------------------------------------------------------------------------
(* findConvexHull *)

\* coords.reduce(...) without an initial value: starts from coords[0] and
\* folds the rest from left to right.
RECURSIVE ReduceBase(_, _, _)
ReduceBase(coords, i, provBaseCoord) ==
    IF i > Len(coords) THEN provBaseCoord
    ELSE LET candCoord == coords[i]
         IN  IF candCoord.y < provBaseCoord.y
                \/ (candCoord.y = provBaseCoord.y /\ candCoord.x < provBaseCoord.x)
             THEN ReduceBase(coords, i + 1, candCoord)
             ELSE ReduceBase(coords, i + 1, provBaseCoord)

\* Mutant of baseCoordOf: the reduce compares y only, so among the lowest
\* points the first of the array wins.
RECURSIVE ReduceBaseYOnly(_, _, _)
ReduceBaseYOnly(coords, i, provBaseCoord) ==
    IF i > Len(coords) THEN provBaseCoord
    ELSE IF coords[i].y < provBaseCoord.y
         THEN ReduceBaseYOnly(coords, i + 1, coords[i])
         ELSE ReduceBaseYOnly(coords, i + 1, provBaseCoord)

baseCoordOfYOnly(coords) == ReduceBaseYOnly(coords, 2, coords[1])

baseCoordOf(coords) == ReduceBase(coords, 2, coords[1])

\* Array.prototype.sort with the comparator compareAngle(baseCoord, ., baseCoord, .).
\* The sort is stable (ECMAScript 2019): elements that compare 0 keep their
\* input order.  Insert places coord after every element that does not
\* compare greater than it.
RECURSIVE Insert(_, _, _)
Insert(sorted, coord, baseCoord) ==
    IF sorted = <<>> THEN <<coord>>
    ELSE IF compareAngle(baseCoord, sorted[Len(sorted)], baseCoord, coord) <= 0
         THEN Append(sorted, coord)
         ELSE Append(Insert(SubSeq(sorted, 1, Len(sorted) - 1), coord, baseCoord),
                     sorted[Len(sorted)])

RECURSIVE SortFrom(_, _, _, _)
SortFrom(coords, i, sorted, baseCoord) ==
    IF i > Len(coords) THEN sorted
    ELSE SortFrom(coords, i + 1, Insert(sorted, coords[i], baseCoord), baseCoord)

sortedCoordsOf(coords, baseCoord) == SortFrom(coords, 1, <<>>, baseCoord)

\* Mutant of PopWhile: the two rays are passed to compareAngle in the other
\* order (second-to-top first).
RECURSIVE PopWhileSwapped(_, _)
PopWhileSwapped(hull, coord) ==
    IF Len(hull) >= 2
       /\ compareAngle(hull[Len(hull) - 1], coord, hull[Len(hull)], coord) <= 0
    THEN PopWhileSwapped(SubSeq(hull, 1, Len(hull) - 1), coord)
    ELSE hull

\* The while loop: pop while the stack holds two points or more and the top
\* does not make a strict turn towards coord.
RECURSIVE PopWhile(_, _)
PopWhile(hull, coord) ==
    IF Len(hull) >= 2
       /\ compareAngle(hull[Len(hull)], coord, hull[Len(hull) - 1], coord) <= 0
    THEN PopWhile(SubSeq(hull, 1, Len(hull) - 1), coord)
    ELSE hull

\* One iteration of the for loop.
ScanStep(hull, coord) ==
    IF same(coord, hull[Len(hull)]) THEN hull
    ELSE Append(PopWhile(hull, coord), coord)

RECURSIVE Scan(_, _, _)
Scan(hull, sortedCoords, i) ==
    IF i > Len(sortedCoords) THEN hull
    ELSE Scan(ScanStep(hull, sortedCoords[i]), sortedCoords, i + 1)

findConvexHull(coords) ==
    IF Len(coords) = 0 THEN <<>>
    ELSE LET baseCoord == baseCoordOf(coords)
             sortedCoords == sortedCoordsOf(coords, baseCoord)
         IN  Scan(<<baseCoord>>, sortedCoords, 1)

\* Mutant of coordsAfterFindConvexHull: the sort runs on the caller's array
\* (no `[...coords]` copy).
coordsAfterSortInPlace(coords) ==
    IF Len(coords) = 0 THEN coords
    ELSE sortedCoordsOf(coords, baseCoordOf(coords))

\* The caller's array when findConvexHull returns: `[...coords]` copies it
\* before the in-place sort, and the stack is a fresh array, so it is what
\* the caller passed.
coordsAfterFindConvexHull(coords) == coords

---------------------------------------------------------------------------
(* drawConvexHull: the label's text, as the numbers it is built from *)

\* "Included in the convex hull: H / N" and, when the list is not empty, the
\* percentage 100 * H / N (kept as the exact fraction; toPrecision(3) only
\* formats it).
messageOf(hull, coords) ==
    [hullCount  |-> Len(hull),
     pointCount |-> Len(coords),
     percentage |-> IF Len(coords) # 0 THEN <<100 * Len(hull), Len(coords)>>
                    ELSE <<>>]

---------------------------------------------------------------------------
(* The click listener *)

\* Math.min(Math.floor((canvasX - CANVAS_PADDING) /
\*                     ((CANVAS_WIDTH - 2 * CANVAS_PADDING) / WIDTH)), WIDTH - 1)
Min(a, b) == IF a < b THEN a ELSE b

clickedXOf(canvasX) ==
    Min(((canvasX - CANVAS_PADDING) * WIDTH) \div (CANVAS_WIDTH - 2 * CANVAS_PADDING),
        WIDTH - 1)

clickedYOf(canvasY) ==
    Min(((canvasY - CANVAS_PADDING) * HEIGHT) \div (CANVAS_HEIGHT - 2 * CANVAS_PADDING),
        HEIGHT - 1)

\* The early return of the listener.
OutsideGrid(canvasX, canvasY) ==
    \/ canvasX < CANVAS_PADDING
    \/ canvasX >= CANVAS_PADDING + CANVAS_WIDTH
    \/ canvasY < CANVAS_PADDING
    \/ canvasY >= CANVAS_PADDING + CANVAS_HEIGHT

\* points.findIndex(coord => coord.same(clickedCoord)), 1-based; 0 for -1.
FindIndexSame(coords, clickedCoord) ==
    LET hits == {i \in 1..Len(coords) : same(coords[i], clickedCoord)}
    IN  IF hits = {} THEN 0 ELSE CHOOSE i \in hits : \A j \in hits : i <= j

\* points.splice(idx, 1)
Splice1(coords, idx) ==
    SubSeq(coords, 1, idx - 1) \o SubSeq(coords, idx + 1, Len(coords))

\* Mutant of Toggle: points.splice(idx) without the count removes the
\* clicked point and every point after it.
ToggleSpliceToEnd(coords, clickedCoord) ==
    LET idx == FindIndexSame(coords, clickedCoord)
    IN  IF idx = 0 THEN Append(coords, clickedCoord)
        ELSE SubSeq(coords, 1, idx - 1)

\* The listener's update of `points`.
Toggle(coords, clickedCoord) ==
    LET idx == FindIndexSame(coords, clickedCoord)
    IN  IF idx = 0 THEN Append(coords, clickedCoord) ELSE Splice1(coords, idx)

\* The pixels of the canvas a click can land on.
CanvasPixels == (0..(CANVAS_WIDTH - 1)) \X (0..(CANVAS_HEIGHT - 1))

\* The cells `new Coord2D(clickedX, clickedY)` can name: one per pixel that
\* passes the early return.
ClickedCoords ==
    {Coord2D(clickedXOf(px[1]), clickedYOf(px[2])) :
        px \in {q \in CanvasPixels : ~OutsideGrid(q[1], q[2])}}

\* drawConvexHull(points) after `points` has become `coords`.
Draw(coords) ==
    LET hull == findConvexHull(coords)
    IN  /\ points' = coordsAfterFindConvexHull(coords)
        /\ convexHull' = hull
        /\ message' = messageOf(hull, coordsAfterFindConvexHull(coords))

\* A click on a pixel that the listener maps to clickedCoord.
Click(clickedCoord) ==
    /\ pc = "idle"
    /\ \/ Len(points) < MaxPoints
       \/ FindIndexSame(points, clickedCoord) # 0
    /\ Draw(Toggle(points, clickedCoord))
    /\ UNCHANGED <<pc, angleArgs, angleResult>>

\* A click on a pixel of the padding: the listener returns at once.
ClickOutside ==
    /\ pc = "idle"
    /\ {px \in CanvasPixels : OutsideGrid(px[1], px[2])} # {}
    /\ UNCHANGED vars

Reset ==
    /\ pc = "idle"
    /\ Draw(<<>>)
    /\ UNCHANGED <<pc, angleArgs, angleResult>>

NoAngle == [base1 |-> Coord2D(0, 0), coord1 |-> Coord2D(0, 0),
            base2 |-> Coord2D(0, 0), coord2 |-> Coord2D(0, 0)]

\* The state once the script has run: `points` is empty and drawConvexHull(points)
\* has drawn it.
Init ==
    /\ points = <<>>
    /\ convexHull = findConvexHull(<<>>)
    /\ message = messageOf(findConvexHull(<<>>), <<>>)
    /\ pc = "idle"
    /\ angleArgs = NoAngle
    /\ angleResult = 0

Next ==
    \/ \E clickedCoord \in ClickedCoords : Click(clickedCoord)
    \/ ClickOutside
    \/ Reset

Spec == Init /\ [][Next]_vars

---------------------------------------------------------------------------
(* One call of findConvexHull on any array of at most MaxLen grid points *)

\* The arrays of exactly n grid points.
ArraysOfLen(n) == [1..n -> Cells]

\* The state before a call whose argument holds at most maxLen points.
InitCall(maxLen) ==
    /\ \E n \in 0..maxLen : points \in ArraysOfLen(n)
    /\ convexHull = <<>>
    /\ message = messageOf(<<>>, <<>>)
    /\ pc = "call"
    /\ angleArgs = NoAngle
    /\ angleResult = 0

InitHull == InitCall(MaxLen)

InitHullSmall == InitCall(MaxSmallLen)

CallFindConvexHull ==
    /\ pc = "call"
    /\ convexHull' = findConvexHull(points)
    /\ points' = coordsAfterFindConvexHull(points)
    /\ pc' = "done"
    /\ UNCHANGED <<message, angleArgs, angleResult>>

NextHull == CallFindConvexHull

SpecHull == InitHull /\ [][NextHull]_vars

SpecHullSmall == InitHullSmall /\ [][NextHull]_vars

---------------------------------------------------------------------------
(* One call of compareAngle on any four grid points *)

InitAngle ==
    /\ angleArgs \in [base1 : Cells, coord1 : Cells, base2 : Cells, coord2 : Cells]
    /\ angleResult = 0
    /\ pc = "call"
    /\ points = <<>>
    /\ convexHull = <<>>
    /\ message = messageOf(<<>>, <<>>)

CallCompareAngle ==
    /\ pc = "call"
    /\ angleResult' = compareAngle(angleArgs.base1, angleArgs.coord1,
                                   angleArgs.base2, angleArgs.coord2)
    /\ pc' = "done"
    /\ UNCHANGED <<points, convexHull, message, angleArgs>>

NextAngle == CallCompareAngle

SpecAngle == InitAngle /\ [][NextAngle]_vars

---------------------------------------------------------------------------
(* Plane geometry the properties are stated in, independent of the code *)

Range(s) == {s[i] : i \in DOMAIN s}

Distinct(s) == \A i, j \in DOMAIN s : i # j => s[i] # s[j]

\* Twice the signed area of the triangle o, a, b: positive when o -> a -> b
\* turns counter-clockwise, negative when it turns clockwise, 0 when the three
\* are collinear.
Cross(o, a, b) == (a.x - o.x) * (b.y - o.y) - (a.y - o.y) * (b.x - o.x)

\* p lies on the closed segment from a to b.
OnSegment(p, a, b) ==
    /\ Cross(a, b, p) = 0
    /\ Min(a.x, b.x) <= p.x /\ p.x <= -Min(-a.x, -b.x)
    /\ Min(a.y, b.y) <= p.y /\ p.y <= -Min(-a.y, -b.y)

\* p lies in the convex hull of the finite set T (Caratheodory: in T, on a
\* segment between two points of T, or strictly inside a triangle of T).
InConvexHull(p, T) ==
    \/ p \in T
    \/ \E a, b \in T : OnSegment(p, a, b)
    \/ \E a, b, c \in T :
          /\ Cross(a, b, p) > 0
          /\ Cross(b, c, p) > 0
          /\ Cross(c, a, p) > 0

\* The vertices (extreme points) of the convex hull of S.
ExtremePoints(S) == {p \in S : ~InConvexHull(p, S \ {p})}

\* p lies in the interior of the convex hull of T: no line through p and
\* another point of T has all of T on one closed side.
StrictlyInside(p, T) ==
    /\ T \ {p} # {}
    /\ \A s \in T \ {p} :
          /\ \E q \in T : Cross(p, s, q) > 0
          /\ \E q \in T : Cross(p, s, q) < 0

\* p is the point of S with the smallest y, then the smallest x.
IsLowestLeftmost(p, S) ==
    /\ p \in S
    /\ \A q \in S : p.y < q.y \/ (p.y = q.y /\ p.x <= q.x)

\* The successor of index i on the cycle 1..n.
CycNext(i, n) == IF i = n THEN 1 ELSE i + 1

\* All points of S lie on one straight line.
AllCollinear(S) == \A a, b, c \in S : Cross(a, b, c) = 0

\* The arrays with the same elements as the array s of distinct points.
PermutationsOf(s) ==
    {[i \in 1..Len(s) |-> s[f[i]]] : f \in Permutations(1..Len(s))}

---------------------------------------------------------------------------
(* C1 *)

\* C1: findConvexHull returns the empty sequence for the empty input, and
\* for every nonempty input (any order, repeated points allowed) a nonempty
\* sequence whose first element is the input point with the smallest y,
\* ties broken by the smallest x.
C1_FirstIsLowestLeftmost ==
    pc = "done" =>
        IF points = <<>>
        THEN convexHull = <<>>
        ELSE /\ convexHull # <<>>
             /\ IsLowestLeftmost(convexHull[1], Range(points))

\* A call on an array of three with a repeated point whose pivot is not its
\* first element and shares its row with another point.
C1_Witness ==
    /\ pc = "done"
    /\ Len(points) = 3
    /\ ~Distinct(points)
    /\ convexHull[1] # points[1]
    /\ \E q \in Range(points) : q.y = convexHull[1].y /\ q.x > convexHull[1].x

---------------------------------------------------------------------------
(* C2 *)

---------------------------------------------------------------------------
(* C3 *)

\* C3: for every input of distinct points, in any order, every returned
\* point is a vertex (extreme point) of the convex hull of the input, and no
\* three cyclically consecutive returned points are collinear.
C3_OnlyVerticesNoCollinear ==
    LET n == Len(convexHull)
    IN  /\ Range(convexHull) \subseteq ExtremePoints(Range(points))
        /\ n >= 3 =>
              \A i \in 1..n :
                  Cross(convexHull[i], convexHull[CycNext(i, n)],
                        convexHull[CycNext(CycNext(i, n), n)]) # 0

---------------------------------------------------------------------------
(* C4 *)

\* C4: two inputs that are permutations of the same set of distinct points
\* give results with the same set of points.
C4_OrderIndependent ==
    \A q \in PermutationsOf(points) :
        Range(findConvexHull(q)) = Range(convexHull)

---------------------------------------------------------------------------
(* C5 *)

\* C5: for three or more distinct points on one straight line, in any
\* order, the result is exactly the two extreme points of the line, pivot
\* first.
C5_CollinearGivesTwoEnds ==
    (Len(points) >= 3 /\ AllCollinear(Range(points))) =>
        /\ Len(convexHull) = 2
        /\ IsLowestLeftmost(convexHull[1], Range(points))
        /\ Range(convexHull) = ExtremePoints(Range(points))

---------------------------------------------------------------------------
(* C6 *)

\* C6: for every input, no returned point lies strictly inside the polygon
\* formed by the other returned points, and no input point strictly inside
\* the convex hull of the input is returned.
C6_NoInteriorPoint ==
    pc = "done" =>
        /\ \A i \in DOMAIN convexHull :
              ~StrictlyInside(convexHull[i],
                              {convexHull[j] : j \in DOMAIN convexHull \ {i}})
        /\ \A p \in Range(points) :
              p \in Range(convexHull) => ~StrictlyInside(p, Range(points))

---------------------------------------------------------------------------
(* C7 *)

\* C7: for every input, repeated points included, the result holds no two
\* coordinate-equal points.
C7_NoTwoEqualPoints ==
    pc = "done" =>
        \A i, j \in DOMAIN convexHull :
            i # j => ~same(convexHull[i], convexHull[j])

---------------------------------------------------------------------------
(* C8 *)

---------------------------------------------------------------------------
(* C9 *)

\* The direction vector of a ray.
Vec(base, coord) == [x |-> coord.x - base.x, y |-> coord.y - base.y]

\* 0 for the zero vector, 1 for polar angles in [0, 180), 2 for [180, 360).
HalfPlane(v) ==
    IF v.x = 0 /\ v.y = 0 THEN 0
    ELSE IF v.y > 0 \/ (v.y = 0 /\ v.x > 0) THEN 1
    ELSE 2

\* The polar angle of v in [0, 360) is strictly smaller than that of w, the
\* zero vector counting as smaller than every other vector.
AngleLess(v, w) ==
    \/ HalfPlane(v) < HalfPlane(w)
    \/ /\ HalfPlane(v) = HalfPlane(w)
       /\ HalfPlane(v) # 0
       /\ v.x * w.y - v.y * w.x > 0

\* C9: compareAngle returns a value in {-1, 0, 1}: -1 exactly when the polar
\* angle of coord1 - base1 is strictly smaller than that of coord2 - base2,
\* 1 exactly when it is strictly larger, 0 when they are equal; a zero
\* vector compares before every nonzero vector.
C9_CompareAngleIsPolarOrder ==
    pc = "done" =>
        LET v == Vec(angleArgs.base1, angleArgs.coord1)
            w == Vec(angleArgs.base2, angleArgs.coord2)
        IN  /\ angleResult \in {-1, 0, 1}
            /\ angleResult = -1 <=> AngleLess(v, w)
            /\ angleResult = 1 <=> AngleLess(w, v)
            /\ (HalfPlane(v) = 0 /\ HalfPlane(w) # 0) => angleResult = -1

\* A call on two different rays of the third quadrant, the first at the
\* smaller angle: the regions agree and the cross product decides.
C9_Witness ==
    LET v == Vec(angleArgs.base1, angleArgs.coord1)
        w == Vec(angleArgs.base2, angleArgs.coord2)
    IN  /\ pc = "done"
        /\ v.x < 0 /\ v.y < 0 /\ w.x < 0 /\ w.y < 0
        /\ angleArgs.base1 # angleArgs.base2
        /\ angleResult = -1

---------------------------------------------------------------------------
(* C10 *)

\* The array coords without its elements equal to cell, the rest in place.
Without(coords, cell) == SelectSeq(coords, LAMBDA p : p # cell)

\* C10: after any clicks and resets the point list holds no two equal
\* points; a click on a cell not in the list appends exactly that cell, a
\* click on a cell in the list removes exactly that cell and leaves every
\* other point in place, and reset empties the list.
C10_ToggleKeepsPointsDistinct ==
    [][/\ Distinct(points)
       /\ Distinct(points')
       /\ \A cell \in Cells :
             Click(cell) =>
                 IF cell \in Range(points)
                 THEN points' = Without(points, cell)
                 ELSE points' = Append(points, cell)
       /\ Reset => points' = <<>>]_vars

\* Clicks have filled the list with points that are not in the order of
\* their hull: a click on the second one removes from the middle.
C10_Witness ==
    /\ pc = "idle"
    /\ Len(points) = MaxPoints
    /\ Len(points) >= 3
    /\ message.pointCount = MaxPoints
    /\ convexHull # points
    /\ Toggle(points, points[2]) = <<points[1]>> \o SubSeq(points, 3, Len(points))

=============================================================================
